---- MODULE Spec2Model ----
(***************************************************************************)
(* A model of textual_serve_asgi.server.Server: the WebSocket session      *)
(* bridge (handle_websocket), the download responder (handle_download and  *)
(* its stream_body generator) and the terminal-size negotiation            *)
(* (to_int over the width/height query parameters).                        *)
(*                                                                         *)
(* Three specifications share the module:                                  *)
(*   Spec / FairSpec  one WebSocket session, every await point a state     *)
(*   DownloadSpec     one GET /download/{key} request and its body         *)
(*   SizeSpec         the size negotiation over bounded query strings      *)
(*                                                                         *)
(* Strings that the code parses are tuples of one-character strings, so    *)
(* that parsing is computed.  Collaborators the repository only calls      *)
(* (starlette's WebSocket, textual_serve's AppService and DownloadManager) *)
(* are modelled at the call site: every awaited call may return, raise or  *)
(* be interrupted by a cancellation of the session task.                   *)
(***************************************************************************)
EXTENDS Integers, Sequences, FiniteSets, TLC

\* ------------------------------------------------------------------ bounds
\* Longest query-parameter value drawn in SizeSpec.
MaxLen == 2
\* Messages the client sends in one session.
MaxMsgs == 2
\* Frames the application service writes through the injected sinks.
MaxOut == 2
\* Times the session task is cancelled (asyncio's Task.cancel() may be called again).
MaxCancels == 2
\* Chunks the download manager yields for one key.
MaxChunks == 3

\* ------------------------------------------------------- program constants
\* server.py:169  to_int(websocket.query_params.get("width", "80"), 80)
DefaultWidth == 80
\* server.py:170  to_int(websocket.query_params.get("height", "24"), 24)
DefaultHeight == 24

\* The same defaults as the strings query_params.get falls back to.
DefaultWidthStr == <<"8", "0">>
DefaultHeightStr == <<"2", "4">>

\* ---------------------------------------------------- to_int and int(str)
Digits == {"0", "1", "2", "3", "4", "5", "6", "7", "8", "9"}

DigitVal(c) ==
    CASE c = "0" -> 0 [] c = "1" -> 1 [] c = "2" -> 2 [] c = "3" -> 3
      [] c = "4" -> 4 [] c = "5" -> 5 [] c = "6" -> 6 [] c = "7" -> 7
      [] c = "8" -> 8 [] c = "9" -> 9

RECURSIVE LStrip(_)
LStrip(s) ==
    IF s # <<>> /\ Head(s) = " " THEN LStrip(Tail(s)) ELSE s

RECURSIVE RStrip(_)
RStrip(s) ==
    IF s # <<>> /\ s[Len(s)] = " " THEN RStrip(SubSeq(s, 1, Len(s) - 1)) ELSE s

\* The digits of a literal: a digit at each end, single underscores between digits.
ValidDigits(b) ==
    /\ Len(b) > 0
    /\ \A i \in 1..Len(b) : b[i] \in Digits \cup {"_"}
    /\ b[1] \in Digits
    /\ b[Len(b)] \in Digits
    /\ \A i \in 1..(Len(b) - 1) : ~(b[i] = "_" /\ b[i + 1] = "_")

RECURSIVE DigitsValue(_, _)
DigitsValue(b, acc) ==
    IF b = <<>> THEN acc
    ELSE IF Head(b) = "_" THEN DigitsValue(Tail(b), acc)
    ELSE DigitsValue(Tail(b), 10 * acc + DigitVal(Head(b)))

\* Python's int(value) for a str: surrounding whitespace stripped, an optional
\* sign, then the digits; anything else raises ValueError (ok = FALSE).
ParseInt(value) ==
    LET t == RStrip(LStrip(value))
        signed == t # <<>> /\ Head(t) \in {"-", "+"}
        b == IF signed THEN Tail(t) ELSE t
    IN  IF ValidDigits(b)
        THEN [ok |-> TRUE,
              val |-> IF signed /\ Head(t) = "-"
                      THEN 0 - DigitsValue(b, 0) ELSE DigitsValue(b, 0)]
        ELSE [ok |-> FALSE, val |-> 0]

\* textual_serve.server.to_int: int(value), or the default on ValueError.
to_int(value, default) ==
    LET r == ParseInt(value) IN IF r.ok THEN r.val ELSE default

\* A query parameter: absent, or present with a value.
Absent == [present |-> FALSE, value |-> <<>>]
Present(v) == [present |-> TRUE, value |-> v]

\* query_params.get(key, default)
QueryGet(param, default) ==
    IF param.present THEN param.value ELSE default

\* A plausible slip: the height's default used for the width.
NegotiatedWidthSwapped(q) == to_int(QueryGet(q.width, DefaultHeightStr), DefaultHeight)
\* server.py:169
NegotiatedWidth(q) == to_int(QueryGet(q.width, DefaultWidthStr), DefaultWidth)

\* server.py:170
NegotiatedHeight(q) == to_int(QueryGet(q.height, DefaultHeightStr), DefaultHeight)

\* ------------------------------------------------------------------- state
VARIABLES
    \* --- the session (handle_websocket)
    pc,         \* where handle_websocket is: an await point or a step between two
    outcome,    \* "running", "returned", or the exception that reached the caller
    pending,    \* the exception the finally block will re-raise, or "none"
    query,      \* the connection's width/height query parameters
    width,      \* line 169's result (0 before it ran)
    height,     \* line 170's result (0 before it ran)
    startArgs,  \* the arguments of app_service.start, <<>> before the call
    constructed,\* app_service is not None
    svc,        \* the application service: none, starting, running, failed, ...
    appState,   \* starlette's WebSocket.application_state
    discBy,     \* who closed the connection first: none, client, app
    inbox,      \* events the server holds for websocket.receive(), oldest first
    clientSent, \* messages the client sent so far
    nRead,      \* messages the relay read from the WebSocket
    forwarded,  \* messages handed to the service's input, in order
    sent,       \* frames the service wrote through write_bytes/write_str, in order
    calls,      \* the bridge's own collaborator calls, in order
    svcClosed,  \* the service called its close callback
    logged,     \* log.exception calls
    cancels,    \* cancellations delivered to the session task
    caught,     \* the except asyncio.CancelledError branch was entered
    startFailed,\* app_service.start raised a non-cancellation error
    \* --- the download (handle_download)
    dl,
    \* --- the bootstrap page (handle_index)
    page,
    \* --- concurrent sessions of one Server (handle_websocket, once per connection)
    server,
    \* --- the application lifespan (_lifespan)
    life

sessionVars ==
    <<pc, outcome, pending, query, width, height, startArgs, constructed, svc,
      appState, discBy, inbox, clientSent, nRead, forwarded, sent, calls,
      svcClosed, logged, cancels, caught, startFailed>>

\* What the session's and the download's steps leave alone.
others == <<page, server, life>>

vars == <<sessionVars, dl, others>>

Disconnect == [type |-> "disconnect"]
Msg(n) == [type |-> "receive", id |-> n]

Count(e, s) == Cardinality({i \in DOMAIN s : s[i] = e})

\* The first position of e in s, 0 when absent.
IndexOf(e, s) ==
    IF \E i \in DOMAIN s : s[i] = e
    THEN CHOOSE i \in DOMAIN s : s[i] = e /\ \A j \in 1..(i - 1) : s[j] # e
    ELSE 0

\* Query parameters a session is opened with.
SessionQueries ==
    { [width |-> Absent, height |-> Absent],
      [width |-> Present(<<"x">>), height |-> Present(<<"1", "0">>)],
      [width |-> Present(<<"0">>), height |-> Present(<<"-", "1">>)] }

DlIdle ==
    [pc |-> "none"]

\* The state of a session that has not begun, at position p with query q.
SessionAt(p, q) ==
    /\ pc = p
    /\ outcome = "running"
    /\ pending = "none"
    /\ query = q
    /\ width = 0
    /\ height = 0
    /\ startArgs = <<>>
    /\ constructed = FALSE
    /\ svc = "none"
    /\ appState = "CONNECTING"
    /\ discBy = "none"
    /\ inbox = <<>>
    /\ clientSent = 0
    /\ nRead = 0
    /\ forwarded = <<>>
    /\ sent = <<>>
    /\ calls = <<>>
    /\ svcClosed = FALSE
    /\ logged = 0
    /\ cancels = 0
    /\ caught = FALSE
    /\ startFailed = FALSE

\* No index request, no concurrent sessions and no lifespan in progress.
PageIdle == [pc |-> "none"]
ServerIdle == [pc |-> "none"]
LifeIdle == [pc |-> "none"]

OthersIdle ==
    /\ page = PageIdle
    /\ server = ServerIdle
    /\ life = LifeIdle

Init ==
    /\ \E q \in SessionQueries : SessionAt("idle", q)
    /\ dl = DlIdle
    /\ OthersIdle

\* ------------------------------------------------- handle_websocket: steps
\* The WebSocketRoute calls handle_websocket, which awaits websocket.accept().
Connect ==
    /\ pc = "idle"
    /\ pc' = "accept"
    /\ calls' = Append(calls, "accept")
    /\ UNCHANGED <<outcome, pending, query, width, height, startArgs, constructed,
                   svc, appState, discBy, inbox, clientSent, nRead, forwarded, sent,
                   svcClosed, logged, cancels, caught, startFailed, dl, others>>

\* accept() returned: lines 169-172 run (the size, app_service = None).
AcceptOk ==
    /\ pc = "accept"
    /\ appState' = "CONNECTED"
    /\ width' = NegotiatedWidth(query)
    /\ height' = NegotiatedHeight(query)
    /\ pc' = "construct"
    /\ UNCHANGED <<outcome, pending, query, startArgs, constructed, svc, discBy,
                   inbox, clientSent, nRead, forwarded, sent, calls, svcClosed,
                   logged, cancels, caught, startFailed, dl, others>>

\* A plausible slip: the accept failure is swallowed and the handler goes on.
AcceptFailSwallowed ==
    /\ pc = "accept"
    /\ width' = NegotiatedWidth(query)
    /\ height' = NegotiatedHeight(query)
    /\ pc' = "construct"
    /\ UNCHANGED <<outcome, pending, query, startArgs, constructed, svc, appState,
                   discBy, inbox, clientSent, nRead, forwarded, sent, calls,
                   svcClosed, logged, cancels, caught, startFailed, dl, others>>

\* accept() raised: line 167 is outside the try, the error leaves the handler.
AcceptFail ==
    /\ pc = "accept"
    /\ outcome' = "Exception"
    /\ pc' = "done"
    /\ UNCHANGED <<pending, query, width, height, startArgs, constructed, svc,
                   appState, discBy, inbox, clientSent, nRead, forwarded, sent,
                   calls, svcClosed, logged, cancels, caught, startFailed, dl, others>>

\* The task is cancelled while awaiting accept(): outside the try as well.
CancelAccept ==
    /\ pc = "accept"
    /\ cancels < MaxCancels
    /\ cancels' = cancels + 1
    /\ outcome' = "CancelledError"
    /\ pc' = "done"
    /\ UNCHANGED <<pending, query, width, height, startArgs, constructed, svc,
                   appState, discBy, inbox, clientSent, nRead, forwarded, sent,
                   calls, svcClosed, logged, caught, startFailed, dl, others>>

\* AppService(...) returned and app_service.start(width, height) is awaited.
ConstructOk ==
    /\ pc = "construct"
    /\ constructed' = TRUE
    /\ svc' = "starting"
    /\ startArgs' = <<width, height>>
    /\ calls' = calls \o <<"construct", "start">>
    /\ pc' = "start"
    /\ UNCHANGED <<outcome, pending, query, width, height, appState, discBy, inbox,
                   clientSent, nRead, forwarded, sent, svcClosed, logged, cancels,
                   caught, startFailed, dl, others>>

\* AppService(...) raised: app_service stays None, except Exception takes it.
ConstructFail ==
    /\ pc = "construct"
    /\ calls' = Append(calls, "construct")
    /\ pc' = "failing"
    /\ UNCHANGED <<outcome, pending, query, width, height, startArgs, constructed,
                   svc, appState, discBy, inbox, clientSent, nRead, forwarded, sent,
                   svcClosed, logged, cancels, caught, startFailed, dl, others>>

\* start() returned: _process_messages(WSWrapper(websocket), app_service) is awaited.
StartOk ==
    /\ pc = "start"
    /\ svc' = "running"
    /\ pc' = "relay"
    /\ UNCHANGED <<outcome, pending, query, width, height, startArgs, constructed,
                   appState, discBy, inbox, clientSent, nRead, forwarded, sent, calls,
                   svcClosed, logged, cancels, caught, startFailed, dl, others>>

\* start() raised a non-cancellation error: except Exception takes it.
StartFail ==
    /\ pc = "start"
    /\ svc' = "failed"
    /\ startFailed' = TRUE
    /\ pc' = "failing"
    /\ UNCHANGED <<outcome, pending, query, width, height, startArgs, constructed,
                   appState, discBy, inbox, clientSent, nRead, forwarded, sent, calls,
                   svcClosed, logged, cancels, caught, dl, others>>

\* What closing does to the connection: the application side is closed, and the
\* server will report the disconnect if it has not yet.
ClosedByApp ==
    /\ appState' = "DISCONNECTED"
    /\ discBy' = IF discBy = "none" THEN "app" ELSE discBy
    /\ inbox' = IF discBy = "none" THEN Append(inbox, Disconnect) ELSE inbox

\* except asyncio.CancelledError (184-185): websocket.close() is called at once.
\* With a close message already sent (application_state DISCONNECTED) the call
\* raises RuntimeError before it suspends; otherwise the close is sent and awaited.
EnterCancelBranch ==
    /\ caught' = TRUE
    /\ calls' = Append(calls, "close")
    /\ IF appState = "DISCONNECTED"
       THEN /\ pending' = "RuntimeError"
            /\ pc' = "finally"
            /\ UNCHANGED <<appState, discBy, inbox>>
       ELSE /\ ClosedByApp
            /\ pc' = "closing"
            /\ UNCHANGED pending

\* The task is cancelled while awaiting start(): except asyncio.CancelledError.
CancelStart ==
    /\ pc = "start"
    /\ cancels < MaxCancels
    /\ cancels' = cancels + 1
    /\ EnterCancelBranch
    /\ UNCHANGED <<outcome, query, width, height, startArgs, constructed, svc,
                   clientSent, nRead, forwarded, sent, svcClosed, logged,
                   startFailed, dl, others>>

\* -------------------------------------------------- the relay (line 183)
\* A plausible slip: the newest message is handed over ahead of the earlier ones.
RelayForwardNewestFirst ==
    /\ pc = "relay"
    /\ inbox # <<>>
    /\ Head(inbox).type = "receive"
    /\ inbox' = Tail(inbox)
    /\ nRead' = nRead + 1
    /\ forwarded' = <<Head(inbox).id>> \o forwarded
    /\ UNCHANGED <<pc, outcome, pending, query, width, height, startArgs,
                   constructed, svc, appState, discBy, clientSent, sent, calls,
                   svcClosed, logged, cancels, caught, startFailed, dl, others>>

\* WSWrapper.__aiter__ yields the next client message and the relay hands it to
\* the service's input.
RelayForward ==
    /\ pc = "relay"
    /\ inbox # <<>>
    /\ Head(inbox).type = "receive"
    /\ inbox' = Tail(inbox)
    /\ nRead' = nRead + 1
    /\ forwarded' = Append(forwarded, Head(inbox).id)
    /\ UNCHANGED <<pc, outcome, pending, query, width, height, startArgs,
                   constructed, svc, appState, discBy, clientSent, sent, calls,
                   svcClosed, logged, cancels, caught, startFailed, dl, others>>

\* Reading or handling a message raised (undecodable JSON, a malformed envelope,
\* the service's input failing): except Exception takes it.
RelayFail ==
    /\ pc = "relay"
    /\ inbox # <<>>
    /\ Head(inbox).type = "receive"
    /\ inbox' = Tail(inbox)
    /\ nRead' = nRead + 1
    /\ pc' = "failing"
    /\ UNCHANGED <<outcome, pending, query, width, height, startArgs, constructed,
                   svc, appState, discBy, clientSent, forwarded, sent, calls,
                   svcClosed, logged, cancels, caught, startFailed, dl, others>>

\* A plausible slip: the loop ignores the disconnect and keeps waiting.
RelayEndIgnored ==
    /\ pc = "relay"
    /\ inbox # <<>>
    /\ Head(inbox).type = "disconnect"
    /\ inbox' = Tail(inbox)
    /\ UNCHANGED <<pc, outcome, pending, query, width, height, startArgs,
                   constructed, svc, appState, discBy, clientSent, nRead, forwarded,
                   sent, calls, svcClosed, logged, cancels, caught, startFailed, dl, others>>

\* iter_json ends on the disconnect event: the loop and _process_messages return.
RelayEnd ==
    /\ pc = "relay"
    /\ inbox # <<>>
    /\ Head(inbox).type = "disconnect"
    /\ inbox' = Tail(inbox)
    /\ pc' = "finally"
    /\ UNCHANGED <<outcome, pending, query, width, height, startArgs, constructed,
                   svc, appState, discBy, clientSent, nRead, forwarded, sent, calls,
                   svcClosed, logged, cancels, caught, startFailed, dl, others>>

\* The task is cancelled while relaying: except asyncio.CancelledError.
CancelRelay ==
    /\ pc = "relay"
    /\ cancels < MaxCancels
    /\ cancels' = cancels + 1
    /\ EnterCancelBranch
    /\ UNCHANGED <<outcome, query, width, height, startArgs, constructed, svc,
                   clientSent, nRead, forwarded, sent, svcClosed, logged,
                   startFailed, dl, others>>

\* ------------------------------- except asyncio.CancelledError (184-186)
\* websocket.close() returned; the bare raise re-raises the cancellation.
CloseOk ==
    /\ pc = "closing"
    /\ pending' = "CancelledError"
    /\ pc' = "finally"
    /\ UNCHANGED <<outcome, query, width, height, startArgs, constructed, svc,
                   appState, discBy, inbox, clientSent, nRead, forwarded, sent,
                   calls, svcClosed, logged, cancels, caught, startFailed, dl, others>>

\* websocket.close() raised WebSocketDisconnect: the server reported the client
\* gone when the close was sent.  The raise of line 186 is not reached.
CloseRaises ==
    /\ pc = "closing"
    /\ discBy = "client"
    /\ pending' = "WebSocketDisconnect"
    /\ pc' = "finally"
    /\ UNCHANGED <<outcome, query, width, height, startArgs, constructed, svc,
                   appState, discBy, inbox, clientSent, nRead, forwarded, sent,
                   calls, svcClosed, logged, cancels, caught, startFailed, dl, others>>

\* The task is cancelled again while websocket.close() is awaited.
CancelClose ==
    /\ pc = "closing"
    /\ cancels < MaxCancels
    /\ cancels' = cancels + 1
    /\ pending' = "CancelledError"
    /\ pc' = "finally"
    /\ UNCHANGED <<outcome, query, width, height, startArgs, constructed, svc,
                   appState, discBy, inbox, clientSent, nRead, forwarded, sent,
                   calls, svcClosed, logged, caught, startFailed, dl, others>>

\* --------------------------------------------- except Exception (187-188)
\* A plausible slip: the error branch closes the WebSocket as well.
FailingCloses ==
    /\ pc = "failing"
    /\ logged' = logged + 1
    /\ calls' = Append(calls, "close")
    /\ IF appState = "CONNECTED" THEN ClosedByApp
       ELSE UNCHANGED <<appState, discBy, inbox>>
    /\ pc' = "finally"
    /\ UNCHANGED <<outcome, pending, query, width, height, startArgs, constructed,
                   svc, clientSent, nRead, forwarded, sent, svcClosed, cancels,
                   caught, startFailed, dl, others>>

Failing ==
    /\ pc = "failing"
    /\ logged' = logged + 1
    /\ pc' = "finally"
    /\ UNCHANGED <<outcome, pending, query, width, height, startArgs, constructed,
                   svc, appState, discBy, inbox, clientSent, nRead, forwarded, sent,
                   calls, svcClosed, cancels, caught, startFailed, dl, others>>

\* ------------------------------------------------------ finally (189-191)
\* The handler ends: it returns, or re-raises what the finally block held.
Finish ==
    /\ outcome' = IF pending = "none" THEN "returned" ELSE pending
    /\ pc' = "done"

\* A plausible slip: stop() only on the paths that do not re-raise.
FinallyStopUnlessRaising ==
    /\ pc = "finally"
    /\ constructed
    /\ IF pending = "none"
       THEN /\ calls' = Append(calls, "stop")
            /\ svc' = "stopping"
            /\ pc' = "stop"
            /\ UNCHANGED outcome
       ELSE /\ Finish
            /\ UNCHANGED <<calls, svc>>
    /\ UNCHANGED <<pending, query, width, height, startArgs, constructed, appState,
                   discBy, inbox, clientSent, nRead, forwarded, sent, svcClosed,
                   logged, cancels, caught, startFailed, dl, others>>

\* app_service is not None: app_service.stop() is awaited.
FinallyStop ==
    /\ pc = "finally"
    /\ constructed
    /\ calls' = Append(calls, "stop")
    /\ svc' = "stopping"
    /\ pc' = "stop"
    /\ UNCHANGED <<outcome, pending, query, width, height, startArgs, constructed,
                   appState, discBy, inbox, clientSent, nRead, forwarded, sent,
                   svcClosed, logged, cancels, caught, startFailed, dl, others>>

\* app_service is None (the constructor raised): nothing to stop.
FinallyNoService ==
    /\ pc = "finally"
    /\ ~constructed
    /\ Finish
    /\ UNCHANGED <<pending, query, width, height, startArgs, constructed, svc,
                   appState, discBy, inbox, clientSent, nRead, forwarded, sent, calls,
                   svcClosed, logged, cancels, caught, startFailed, dl, others>>

\* stop() returned.
StopOk ==
    /\ pc = "stop"
    /\ svc' = "stopped"
    /\ Finish
    /\ UNCHANGED <<pending, query, width, height, startArgs, constructed, appState,
                   discBy, inbox, clientSent, nRead, forwarded, sent, calls,
                   svcClosed, logged, cancels, caught, startFailed, dl, others>>

\* stop() raised: the error replaces whatever the finally block held.
StopFail ==
    /\ pc = "stop"
    /\ svc' = "broken"
    /\ outcome' = "Exception"
    /\ pc' = "done"
    /\ UNCHANGED <<pending, query, width, height, startArgs, constructed, appState,
                   discBy, inbox, clientSent, nRead, forwarded, sent, calls,
                   svcClosed, logged, cancels, caught, startFailed, dl, others>>

\* The task is cancelled while stop() is awaited: stop() is interrupted and the
\* cancellation leaves the handler from the finally block.
CancelStop ==
    /\ pc = "stop"
    /\ cancels < MaxCancels
    /\ cancels' = cancels + 1
    /\ svc' = "broken"
    /\ outcome' = "CancelledError"
    /\ pc' = "done"
    /\ UNCHANGED <<pending, query, width, height, startArgs, constructed, appState,
                   discBy, inbox, clientSent, nRead, forwarded, sent, calls,
                   svcClosed, logged, caught, startFailed, dl, others>>

\* ----------------------------------------- the client and the service
\* The client sends a message on the open connection.
ClientSend ==
    /\ appState = "CONNECTED"
    /\ discBy = "none"
    /\ clientSent < MaxMsgs
    /\ clientSent' = clientSent + 1
    /\ inbox' = Append(inbox, Msg(clientSent + 1))
    /\ UNCHANGED <<pc, outcome, pending, query, width, height, startArgs,
                   constructed, svc, appState, discBy, nRead, forwarded, sent, calls,
                   svcClosed, logged, cancels, caught, startFailed, dl, others>>

\* The client closes (or drops) the connection.
ClientClose ==
    /\ appState = "CONNECTED"
    /\ discBy = "none"
    /\ discBy' = "client"
    /\ inbox' = Append(inbox, Disconnect)
    /\ UNCHANGED <<pc, outcome, pending, query, width, height, startArgs,
                   constructed, svc, appState, clientSent, nRead, forwarded, sent,
                   calls, svcClosed, logged, cancels, caught, startFailed, dl, others>>

\* The service is finished and calls the close callback it was given
\* (close=websocket.close, line 178).
ServiceClose ==
    /\ svc \in {"running", "stopping"}
    /\ ~svcClosed
    /\ appState = "CONNECTED"
    /\ svcClosed' = TRUE
    /\ ClosedByApp
    /\ UNCHANGED <<pc, outcome, pending, query, width, height, startArgs,
                   constructed, svc, clientSent, nRead, forwarded, sent, calls,
                   logged, cancels, caught, startFailed, dl, others>>

\* The service writes a frame through write_bytes/write_str (lines 176-177).
ServiceWrite ==
    /\ svc \in {"starting", "running", "stopping"}
    /\ appState = "CONNECTED"
    /\ Len(sent) < MaxOut
    /\ sent' = Append(sent, Len(sent) + 1)
    /\ UNCHANGED <<pc, outcome, pending, query, width, height, startArgs,
                   constructed, svc, appState, discBy, inbox, clientSent, nRead,
                   forwarded, calls, svcClosed, logged, cancels, caught,
                   startFailed, dl, others>>

\* ------------------------------------------------------- specification
\* The handler's own steps and the returns of the calls it awaits.
Bridge ==
    \/ Connect \/ AcceptOk \/ AcceptFail
    \/ ConstructOk \/ ConstructFail
    \/ StartOk \/ StartFail
    \/ RelayForward \/ RelayFail \/ RelayEnd
    \/ CloseOk \/ CloseRaises
    \/ Failing
    \/ FinallyStop \/ FinallyNoService
    \/ StopOk \/ StopFail

\* Cancellations of the session task, at each await.
Cancel ==
    \/ CancelAccept \/ CancelStart \/ CancelRelay \/ CancelClose \/ CancelStop

\* The ends of a relay the bridge does not decide.
Terminate ==
    \/ ClientClose \/ ServiceClose

Next ==
    \/ Connect \/ AcceptOk \/ AcceptFail \/ CancelAccept
    \/ ConstructOk \/ ConstructFail
    \/ StartOk \/ StartFail \/ CancelStart
    \/ RelayForward \/ RelayFail \/ RelayEnd \/ CancelRelay
    \/ CloseOk \/ CloseRaises \/ CancelClose
    \/ Failing
    \/ FinallyStop \/ FinallyNoService
    \/ StopOk \/ StopFail \/ CancelStop
    \/ ClientSend \/ ClientClose \/ ServiceClose \/ ServiceWrite

Spec == Init /\ [][Next]_vars

\* The event loop runs a task that can run, awaited calls end, and the relay's
\* connection is eventually closed by one side.
FairSpec == Spec /\ WF_vars(Bridge) /\ WF_vars(Terminate)

\* ------------------------------------------------- the size negotiation
\* Characters a query-parameter value is drawn from.
QueryChars == {"0", "7", "-", "+", " ", "_", "x"}

RECURSIVE StringsUpTo(_)
StringsUpTo(n) ==
    IF n = 0 THEN {<<>>}
    ELSE LET shorter == StringsUpTo(n - 1)
         IN  shorter \cup {Append(t, c) : t \in shorter, c \in QueryChars}

QueryParams == {Absent} \cup {Present(v) : v \in StringsUpTo(MaxLen)}

\* A connection whose accept() is awaited, with any bounded width and height.
SizeInit ==
    /\ \E w \in QueryParams, h \in QueryParams :
           SessionAt("accept", [width |-> w, height |-> h])
    /\ dl = DlIdle
    /\ OthersIdle

\* Lines 167-182 on the path where accept() and AppService(...) return.
SizeNext ==
    \/ AcceptOk
    \/ ConstructOk

SizeSpec == SizeInit /\ [][SizeNext]_vars

\* ---------------------------------------------- handle_download (139-164)
\* Keys are tuples of characters, as the 404 body is computed from the key's text.
Keys == {<<"a">>, <<"b", "/", "c">>}
Chunks == {<<>>, <<1>>, <<2, 3>>}

RECURSIVE SeqsUpTo(_, _)
SeqsUpTo(S, n) ==
    IF n = 0 THEN {<<>>}
    ELSE LET shorter == SeqsUpTo(S, n - 1)
         IN  shorter \cup {Append(t, c) : t \in shorter, c \in S}

RECURSIVE Flatten(_)
Flatten(ss) ==
    IF ss = <<>> THEN <<>> ELSE Head(ss) \o Flatten(Tail(ss))

\* The text of a tuple of characters.
RECURSIVE Join(_)
Join(t) ==
    IF t = <<>> THEN "" ELSE Head(t) \o Join(Tail(t))

\* Python's repr of a str, over the characters drawn here: double quotes around
\* a text that holds a single quote and no double quote, single quotes
\* otherwise; the quote in use and every backslash escaped by a backslash.
ReprQuote(t) ==
    IF (\E i \in DOMAIN t : t[i] = "'") /\ ~(\E i \in DOMAIN t : t[i] = "\"")
    THEN "\"" ELSE "'"

RECURSIVE ReprEscaped(_, _)
ReprEscaped(t, quote) ==
    IF t = <<>> THEN <<>>
    ELSE (IF Head(t) = "\\" \/ Head(t) = quote THEN <<"\\", Head(t)>> ELSE <<Head(t)>>)
         \o ReprEscaped(Tail(t), quote)

Repr(t) ==
    <<ReprQuote(t)>> \o ReprEscaped(t, ReprQuote(t)) \o <<ReprQuote(t)>>

\* f"Download with key {key!r} not found" (line 145).
NotFoundBody(key) ==
    "Download with key " \o Join(Repr(key)) \o " not found"

\* download_meta.encoding is None, or a text.
NoEncoding == [present |-> FALSE, value |-> ""]
Encoding(v) == [present |-> TRUE, value |-> v]

\* bool(download_meta.encoding) (line 149): None and "" are both false.
Truthy(enc) ==
    enc.present /\ enc.value # ""

\* A plausible slip: the suffix appended whenever the encoding is not None.
ContentTypeIfNotNone(meta) ==
    IF meta.encoding.present
    THEN meta.mime_type \o "; charset=" \o meta.encoding.value
    ELSE meta.mime_type

\* content_type (lines 147-150).
ContentType(meta) ==
    IF Truthy(meta.encoding)
    THEN meta.mime_type \o "; charset=" \o meta.encoding.value
    ELSE meta.mime_type

\* A plausible slip: inline unless the hint is "download".
ContentDispositionUnlessDownload(meta) ==
    (IF meta.open_method # "download" THEN "inline" ELSE "attachment")
        \o "; filename=" \o meta.file_name

\* disposition and content_disposition (lines 152 and 158).
ContentDisposition(meta) ==
    (IF meta.open_method = "browser" THEN "inline" ELSE "attachment")
        \o "; filename=" \o meta.file_name

\* The metadata of the spec's example download.
ReportPdf ==
    [file_name |-> "report.pdf", mime_type |-> "application/pdf",
     encoding |-> NoEncoding, open_method |-> "download"]

\* A request for key k, with the keys the download manager knows, the chunks its
\* download(k) yields and, when failing, the number of chunks it yields before
\* it raises.
DlRequest(k, known, chunks, failing, failAfter) ==
    [pc |-> "request", key |-> k, known |-> known, meta |-> ReportPdf,
     chunks |-> chunks, failing |-> failing, failAfter |-> failAfter,
     status |-> 0, bodyKind |-> "none", bodyKey |-> <<>>, text |-> "",
     content_type |-> "", content_disposition |-> "",
     downloadArgs |-> <<>>, asking |-> FALSE, demand |-> 0, pulled |-> 0,
     emitted |-> <<>>]

DownloadInit ==
    /\ \E q \in SessionQueries : q.width = Absent /\ SessionAt("idle", q)
    /\ OthersIdle
    /\ \E k \in Keys, known \in SUBSET Keys, chunks \in SeqsUpTo(Chunks, MaxChunks) :
         \E failing \in BOOLEAN, failAfter \in 0..Len(chunks) :
           /\ (~failing => failAfter = 0)
           /\ dl = DlRequest(k, known, chunks, failing, failAfter)

\* A plausible slip: the KeyError is ignored and the streaming response built.
LookupUnknownStreams ==
    /\ dl.pc = "request"
    /\ dl.key \notin dl.known
    /\ dl' = [dl EXCEPT !.pc = "streaming", !.status = 200,
                        !.bodyKind = "stream", !.bodyKey = dl.key]
    /\ UNCHANGED <<sessionVars, others>>

\* get_download_metadata(key) raised KeyError: the 404 response (142-145).
LookupUnknown ==
    /\ dl.pc = "request"
    /\ dl.key \notin dl.known
    /\ dl' = [dl EXCEPT !.pc = "responded", !.status = 404, !.bodyKind = "text",
                        !.text = NotFoundBody(dl.key)]
    /\ UNCHANGED <<sessionVars, others>>

\* The metadata was found: StreamingResponse(stream_body(), ...) is returned
\* (147-164).  stream_body() is a generator: nothing of it has run yet.
LookupKnown ==
    /\ dl.pc = "request"
    /\ dl.key \in dl.known
    /\ dl' = [dl EXCEPT !.pc = "streaming", !.status = 200,
                        !.bodyKind = "stream", !.bodyKey = dl.key,
                        !.content_type = ContentType(dl.meta),
                        !.content_disposition = ContentDisposition(dl.meta)]
    /\ UNCHANGED <<sessionVars, others>>

\* The consumer of the response asks the body for its next chunk.  The first
\* request starts stream_body, which calls download_manager.download(key).
ConsumerAsk ==
    /\ dl.pc = "streaming"
    /\ ~dl.asking
    /\ dl' = [dl EXCEPT !.asking = TRUE,
                        !.demand = @ + 1,
                        !.downloadArgs = IF dl.demand = 0
                                         THEN Append(@, dl.bodyKey) ELSE @]
    /\ UNCHANGED <<sessionVars, others>>

\* A plausible slip: only the first chunk is yielded on.
StreamBodyYieldDrops(emitted, chunk) ==
    IF emitted = <<>> THEN Append(emitted, chunk) ELSE emitted

\* stream_body's `yield chunk` (line 156): the chunk goes to the consumer.
StreamBodyYield(emitted, chunk) ==
    Append(emitted, chunk)

\* The download manager's generator raises at this point.
FailsNow ==
    dl.failing /\ dl.pulled = dl.failAfter

\* download(key) yields its next chunk and stream_body yields it on (155-156).
ManagerYield ==
    /\ dl.pc = "streaming"
    /\ dl.asking
    /\ ~FailsNow
    /\ dl.pulled < Len(dl.chunks)
    /\ dl' = [dl EXCEPT !.asking = FALSE,
                        !.pulled = @ + 1,
                        !.emitted = StreamBodyYield(@, dl.chunks[dl.pulled + 1])]
    /\ UNCHANGED <<sessionVars, others>>

\* download(key) is exhausted: the async for ends and stream_body returns.
ManagerEnd ==
    /\ dl.pc = "streaming"
    /\ dl.asking
    /\ ~FailsNow
    /\ dl.pulled = Len(dl.chunks)
    /\ dl' = [dl EXCEPT !.asking = FALSE, !.pc = "finished"]
    /\ UNCHANGED <<sessionVars, others>>

\* A plausible slip: stream_body catches the error and ends the body normally.
ManagerFailSwallowed ==
    /\ dl.pc = "streaming"
    /\ dl.asking
    /\ FailsNow
    /\ dl' = [dl EXCEPT !.asking = FALSE, !.pc = "finished"]
    /\ UNCHANGED <<sessionVars, others>>

\* download(key) raised: stream_body has no handler, the error leaves the body.
ManagerFail ==
    /\ dl.pc = "streaming"
    /\ dl.asking
    /\ FailsNow
    /\ dl' = [dl EXCEPT !.asking = FALSE, !.pc = "aborted"]
    /\ UNCHANGED <<sessionVars, others>>

\* The consumer stops reading (the client went away): no chunk is asked for again.
ConsumerLeaves ==
    /\ dl.pc = "streaming"
    /\ ~dl.asking
    /\ dl' = [dl EXCEPT !.pc = "abandoned"]
    /\ UNCHANGED <<sessionVars, others>>

DownloadNext ==
    \/ LookupUnknown \/ LookupKnown
    \/ ConsumerAsk \/ ManagerYield \/ ManagerEnd \/ ManagerFail
    \/ ConsumerLeaves

DownloadSpec == DownloadInit /\ [][DownloadNext]_vars

\* ------------------------------------- the response head of handle_download
\* Longest key drawn in ResponseSpec.
MaxKeyLen == 2

KeyChars == {"a", "/", "'", "\"", "\\"}
KeyTexts == SeqsUpTo(KeyChars, MaxKeyLen)

Metas ==
    [file_name : {"report.pdf", "a b\".txt"},
     mime_type : {"application/pdf", "text/plain"},
     encoding : {NoEncoding, Encoding(""), Encoding("utf-8")},
     open_method : {"browser", "download", "Browser", ""}]

\* A request for any bounded key, unknown or known with any of the metadata.
ResponseInit ==
    /\ \E q \in SessionQueries : q.width = Absent /\ SessionAt("idle", q)
    /\ OthersIdle
    /\ \E k \in KeyTexts :
         \/ dl = DlRequest(k, {}, <<>>, FALSE, 0)
         \/ \E m \in Metas :
              dl = [DlRequest(k, {k}, <<>>, FALSE, 0) EXCEPT !.meta = m]

ResponseNext ==
    \/ LookupUnknown
    \/ LookupKnown

ResponseSpec == ResponseInit /\ [][ResponseNext]_vars

\* ------------------------------------------------------- handle_index
\* Longest host drawn in IndexSpec.
MaxHostLen == 2

DefaultFontSize == 16
DefaultFontSizeStr == <<"1", "6">>

StartsWith(t, prefix) ==
    Len(t) >= Len(prefix) /\ SubSeq(t, 1, Len(prefix)) = prefix

\* str.find: the first position at which sep occurs in t, 0 when it does not.
Find(t, sep) ==
    LET at == {i \in 1..(Len(t) - Len(sep) + 1) :
                   SubSeq(t, i, i + Len(sep) - 1) = sep}
    IN  IF at = {} THEN 0 ELSE CHOOSE i \in at : \A j \in at : i <= j

\* t.split(sep, 1): the parts before and after the first sep, t alone without one.
SplitOnce(t, sep) ==
    IF Find(t, sep) = 0 THEN <<t>>
    ELSE <<SubSeq(t, 1, Find(t, sep) - 1),
           SubSeq(t, Find(t, sep) + Len(sep), Len(t))>>

\* t.rstrip("/").
RECURSIVE RStripSlash(_)
RStripSlash(t) ==
    IF t # <<>> /\ t[Len(t)] = "/" THEN RStripSlash(SubSeq(t, 1, Len(t) - 1)) ELSE t

\* _get_base_url (lines 100-105).
get_base_url(request_base, root_path) ==
    IF root_path # <<>> THEN RStripSlash(request_base) \o root_path
    ELSE RStripSlash(request_base)

\* A plausible slip: the scheme test is startswith("http").
get_ws_url_any_http(base_url) ==
    LET parts == SplitOnce(base_url \o <<"/", "w", "s">>, <<":", "/", "/">>)
    IN  IF Len(parts) # 2 THEN [ok |-> FALSE, url |-> <<>>]
        ELSE IF StartsWith(base_url, <<"h", "t", "t", "p">>)
             THEN [ok |-> TRUE, url |-> <<"w", "s", "s", ":", "/", "/">> \o parts[2]]
             ELSE [ok |-> TRUE, url |-> <<"w", "s", ":", "/", "/">> \o parts[2]]

\* _get_ws_url (lines 107-114); unpacking a split that found no "://" raises
\* ValueError (ok is FALSE).
get_ws_url(base_url) ==
    LET parts == SplitOnce(base_url \o <<"/", "w", "s">>, <<":", "/", "/">>)
    IN  IF Len(parts) # 2 THEN [ok |-> FALSE, url |-> <<>>]
        ELSE IF StartsWith(base_url, <<"h", "t", "t", "p", "s">>)
             THEN [ok |-> TRUE, url |-> <<"w", "s", "s", ":", "/", "/">> \o parts[2]]
             ELSE [ok |-> TRUE, url |-> <<"w", "s", ":", "/", "/">> \o parts[2]]

Schemes == {<<"h", "t", "t", "p">>, <<"h", "t", "t", "p", "s">>}
HostChars == {"h", ".", ":", "8"}
Hosts == SeqsUpTo(HostChars, MaxHostLen) \ {<<>>}
PathPrefixes == {<<>>, <<"/", "r">>}
FontSizes == {Absent, Present(<<"7">>), Present(<<"x">>)}

\* A GET / request: str(request.base_url) is scheme://host<prefix>/, the scope
\* has a root_path or none, the query a fontsize or none.
IndexRequest(scheme, host, prefix, root_path, fontsize) ==
    [pc |-> "request",
     request_base |-> scheme \o <<":", "/", "/">> \o host \o prefix \o <<"/">>,
     root_path |-> root_path, fontsize |-> fontsize,
     base_url |-> <<>>, font_size |-> 0, app_websocket_url |-> <<>>,
     static_url |-> <<>>]

IndexInit ==
    /\ \E q \in SessionQueries : q.width = Absent /\ SessionAt("idle", q)
    /\ dl = DlIdle
    /\ server = ServerIdle
    /\ life = LifeIdle
    /\ \E scheme \in Schemes, host \in Hosts, prefix \in PathPrefixes,
          root_path \in PathPrefixes, fontsize \in FontSizes :
         page = IndexRequest(scheme, host, prefix, root_path, fontsize)

\* handle_index (lines 116-137): the context the page is rendered with.
HandleIndex ==
    /\ page.pc = "request"
    /\ LET base_url == get_base_url(page.request_base, page.root_path)
       IN  /\ get_ws_url(base_url).ok
           /\ page' = [page EXCEPT
                  !.pc = "rendered",
                  !.font_size = to_int(QueryGet(page.fontsize, DefaultFontSizeStr),
                                       DefaultFontSize),
                  !.base_url = base_url,
                  !.app_websocket_url = get_ws_url(base_url).url,
                  !.static_url = base_url \o <<"/", "s", "t", "a", "t", "i", "c", "/">>]
    /\ UNCHANGED <<sessionVars, dl, server, life>>

IndexNext == HandleIndex

IndexSpec == IndexInit /\ [][IndexNext]_vars

\* ----------------------------- handle_websocket, one call per connection
\* Connections served at the same time by one Server.
NumSessions == 2
Sessions == 1..NumSessions

\* Session s's handle_websocket call: where it is, its local app_service (0 for
\* None, else the position of the service in server.services), what its finally
\* block will re-raise, and who closed its WebSocket.
SessIdle ==
    [pc |-> "idle", app_service |-> 0, pending |-> "none", discBy |-> "none"]

ServerInit ==
    /\ \E q \in SessionQueries : q.width = Absent /\ SessionAt("idle", q)
    /\ dl = DlIdle
    /\ page = PageIdle
    /\ life = LifeIdle
    /\ server = [pc |-> "serving",
                 sess |-> [s \in Sessions |-> SessIdle],
                 services |-> <<>>,
                 stops |-> {},
                 closes |-> {}]

\* websocket.accept() (line 167) and app_service = None (line 172).
SessAccept(s) ==
    /\ server.pc = "serving"
    /\ server.sess[s].pc = "idle"
    /\ server' = [server EXCEPT !.sess[s].pc = "accepted"]
    /\ UNCHANGED <<sessionVars, dl, page, life>>

\* AppService(...) returns (lines 174-181): a new service, bound to s's local.
SessConstruct(s) ==
    /\ server.pc = "serving"
    /\ server.sess[s].pc = "accepted"
    /\ server' = [server EXCEPT
           !.services = Append(@, [owner |-> s, state |-> "starting"]),
           !.sess[s].app_service = Len(server.services) + 1,
           !.sess[s].pc = "starting"]
    /\ UNCHANGED <<sessionVars, dl, page, life>>

\* AppService(...) raises: except Exception, app_service still None.
SessConstructFail(s) ==
    /\ server.pc = "serving"
    /\ server.sess[s].pc = "accepted"
    /\ server' = [server EXCEPT !.sess[s].pc = "finally"]
    /\ UNCHANGED <<sessionVars, dl, page, life>>

\* app_service.start(width, height) returns (line 182): the relay begins.
SessStartOk(s) ==
    /\ server.pc = "serving"
    /\ server.sess[s].pc = "starting"
    /\ server' = [server EXCEPT
           !.services[server.sess[s].app_service].state = "running",
           !.sess[s].pc = "relay"]
    /\ UNCHANGED <<sessionVars, dl, page, life>>

\* app_service.start raises: except Exception (187-188).
SessStartFail(s) ==
    /\ server.pc = "serving"
    /\ server.sess[s].pc = "starting"
    /\ server' = [server EXCEPT
           !.services[server.sess[s].app_service].state = "failed",
           !.sess[s].pc = "finally"]
    /\ UNCHANGED <<sessionVars, dl, page, life>>

\* s's client closes its connection.
SessClientClose(s) ==
    /\ server.pc = "serving"
    /\ server.sess[s].pc \in {"accepted", "starting", "relay"}
    /\ server.sess[s].discBy = "none"
    /\ server' = [server EXCEPT !.sess[s].discBy = "client"]
    /\ UNCHANGED <<sessionVars, dl, page, life>>

\* _process_messages returns (line 183): s's connection is closed.
SessRelayEnd(s) ==
    /\ server.pc = "serving"
    /\ server.sess[s].pc = "relay"
    /\ server.sess[s].discBy # "none"
    /\ server' = [server EXCEPT !.sess[s].pc = "finally"]
    /\ UNCHANGED <<sessionVars, dl, page, life>>

\* _process_messages raises: except Exception (187-188).
SessRelayFail(s) ==
    /\ server.pc = "serving"
    /\ server.sess[s].pc = "relay"
    /\ server' = [server EXCEPT !.sess[s].pc = "finally"]
    /\ UNCHANGED <<sessionVars, dl, page, life>>

\* s's task is cancelled in start() or in the relay: websocket.close() on the
\* handler's own websocket (line 185), then raise (line 186).
SessCancel(s) ==
    /\ server.pc = "serving"
    /\ server.sess[s].pc \in {"starting", "relay"}
    /\ server' = [server EXCEPT
           !.closes = @ \cup {<<s, s>>},
           !.sess[s].discBy = IF @ = "none" THEN "app" ELSE @,
           !.sess[s].pending = "CancelledError",
           !.sess[s].pc = "finally"]
    /\ UNCHANGED <<sessionVars, dl, page, life>>

\* A plausible slip: app_service kept on the Server, so that the finally block
\* stops the service constructed last.
SessFinallyStopsLatest(s) ==
    /\ server.pc = "serving"
    /\ server.sess[s].pc = "finally"
    /\ IF server.services # <<>>
       THEN server' = [server EXCEPT
                !.stops = @ \cup {<<s, Len(server.services)>>},
                !.services[Len(server.services)].state = "stopped",
                !.sess[s].pc = "done"]
       ELSE server' = [server EXCEPT !.sess[s].pc = "done"]
    /\ UNCHANGED <<sessionVars, dl, page, life>>

\* finally (189-191): stop() on the local app_service unless it is None.
SessFinally(s) ==
    /\ server.pc = "serving"
    /\ server.sess[s].pc = "finally"
    /\ IF server.sess[s].app_service # 0
       THEN server' = [server EXCEPT
                !.stops = @ \cup {<<s, server.sess[s].app_service>>},
                !.services[server.sess[s].app_service].state = "stopped",
                !.sess[s].pc = "done"]
       ELSE server' = [server EXCEPT !.sess[s].pc = "done"]
    /\ UNCHANGED <<sessionVars, dl, page, life>>

ServerNext ==
    \/ \E s \in Sessions : SessAccept(s)
    \/ \E s \in Sessions : SessConstruct(s)
    \/ \E s \in Sessions : SessConstructFail(s)
    \/ \E s \in Sessions : SessStartOk(s)
    \/ \E s \in Sessions : SessStartFail(s)
    \/ \E s \in Sessions : SessClientClose(s)
    \/ \E s \in Sessions : SessRelayEnd(s)
    \/ \E s \in Sessions : SessRelayFail(s)
    \/ \E s \in Sessions : SessCancel(s)
    \/ \E s \in Sessions : SessFinally(s)

ServerSpec == ServerInit /\ [][ServerNext]_vars

\* ----------------------------------------------------------- _lifespan
\* Times the application's lifespan is run.
MaxRuns == 2
\* Requests served while the lifespan is open.
MaxServed == 3

\* The lifespan of the run at hand: what on_startup did, how the serving phase
\* ended, the calls of on_shutdown; and how the earlier runs ended.
LifeInit ==
    /\ \E q \in SessionQueries : q.width = Absent /\ SessionAt("idle", q)
    /\ dl = DlIdle
    /\ page = PageIdle
    /\ server = ServerIdle
    /\ life = [pc |-> "idle", startup |-> "none", serving |-> "none",
               shutdownCalls |-> 0, served |-> 0, history |-> <<>>]

\* Starlette enters the lifespan context: on_startup(app) is awaited (line 62).
LifespanEnter ==
    /\ life.pc \in {"idle", "exited"}
    /\ Len(life.history) < MaxRuns
    /\ life' = [life EXCEPT !.pc = "startup", !.startup = "called",
                            !.serving = "none", !.shutdownCalls = 0]
    /\ UNCHANGED <<sessionVars, dl, page, server>>

\* on_startup returned: the generator yields (line 63), serving begins.
StartupOk ==
    /\ life.pc = "startup"
    /\ life' = [life EXCEPT !.pc = "serving", !.startup = "ok",
                            !.serving = "running"]
    /\ UNCHANGED <<sessionVars, dl, page, server>>

\* on_startup raised (or was cancelled): the error leaves the generator.
StartupFail ==
    /\ life.pc = "startup"
    /\ life' = [life EXCEPT !.pc = "exited", !.startup = "failed",
                            !.history = Append(@, "startup_failed")]
    /\ UNCHANGED <<sessionVars, dl, page, server>>

\* A request is served while the generator is suspended at the yield.
ServeRequest ==
    /\ life.pc = "serving"
    /\ life.served < MaxServed
    /\ life' = [life EXCEPT !.served = @ + 1]
    /\ UNCHANGED <<sessionVars, dl, page, server>>

\* The serving phase ends normally: the generator resumes after the yield and
\* awaits on_shutdown(app) (line 64).
ServingEnds ==
    /\ life.pc = "serving"
    /\ life' = [life EXCEPT !.pc = "shutdown", !.serving = "ended",
                            !.shutdownCalls = @ + 1]
    /\ UNCHANGED <<sessionVars, dl, page, server>>

\* A plausible slip: on_shutdown in a finally block around the yield.
ServingThrowsThenShutdown ==
    /\ life.pc = "serving"
    /\ life' = [life EXCEPT !.pc = "shutdown", !.serving = "thrown",
                            !.shutdownCalls = @ + 1]
    /\ UNCHANGED <<sessionVars, dl, page, server>>

\* The serving phase ends by an exception thrown into the generator at the
\* yield: no try surrounds it, the exception leaves and line 64 is not reached.
ServingThrows ==
    /\ life.pc = "serving"
    /\ life' = [life EXCEPT !.pc = "exited", !.serving = "thrown",
                            !.history = Append(@, "thrown")]
    /\ UNCHANGED <<sessionVars, dl, page, server>>

\* on_shutdown returned: the generator ends.
ShutdownOk ==
    /\ life.pc = "shutdown"
    /\ life' = [life EXCEPT !.pc = "exited", !.history = Append(@, "ok")]
    /\ UNCHANGED <<sessionVars, dl, page, server>>

\* on_shutdown raised: the error leaves the generator.
ShutdownFail ==
    /\ life.pc = "shutdown"
    /\ life' = [life EXCEPT !.pc = "exited",
                            !.history = Append(@, "shutdown_failed")]
    /\ UNCHANGED <<sessionVars, dl, page, server>>

LifeNext ==
    \/ LifespanEnter
    \/ StartupOk \/ StartupFail
    \/ ServeRequest
    \/ ServingEnds \/ ServingThrows
    \/ ShutdownOk \/ ShutdownFail

LifeSpec == LifeInit /\ [][LifeNext]_vars

\* ============================================================ the session
Done == pc = "done"
Accepted == appState # "CONNECTING"
StartCalls == Count("start", calls)
StopCalls == Count("stop", calls)
CloseCalls == Count("close", calls)

\* C1: in every session and on every exit path, stop() is never called more
\* often than start(), neither is called twice, and when handle_websocket has
\* returned or raised the two counts are equal (0 or 1) and a constructed
\* AppService has had stop() called exactly once.
C1_StopOncePerStart ==
    /\ StartCalls <= 1
    /\ StopCalls <= StartCalls
    /\ Done => /\ StopCalls = StartCalls
               /\ constructed => StopCalls = 1
               /\ ~constructed => StopCalls = 0

\* A session that was cancelled while relaying, and whose service was stopped once.
C1_Witness ==
    /\ Done
    /\ caught
    /\ nRead > 0
    /\ StartCalls = 1
    /\ StopCalls = 1

\* C2: a session cancelled while starting or relaying has websocket.close()
\* called and ends by re-raising the cancellation, whatever state the WebSocket
\* was in.  Stated for the sessions whose stop() then returned, so that the
\* only calls between the cancellation and the end are close() and stop().
C2_CancelReraised ==
    (Done /\ caught /\ svc = "stopped") =>
        (CloseCalls >= 1 /\ outcome = "CancelledError")

\* C3: an accepted session ends by returning normally or by the cancellation,
\* and never by another failure; without a cancellation it returns normally.
C3_OnlyCancellationEscapes ==
    (Done /\ Accepted) =>
        /\ outcome \in {"returned", "CancelledError"}
        /\ cancels = 0 => outcome = "returned"

\* C4: under fairness every accepted session reaches Stopped (the handler has
\* returned or raised), and Stopped is terminal: from then on the bridge makes
\* no further call, reads and forwards nothing and its result does not change.
C4_StoppedReachedAndTerminal ==
    /\ Accepted ~> Done
    /\ [][Done => UNCHANGED <<pc, outcome, pending, calls, nRead, forwarded,
                              constructed, logged>>]_vars

\* An accepted session that relayed a message and is Stopped.
C4_Witness ==
    /\ Done
    /\ Accepted
    /\ forwarded # <<>>
    /\ StopCalls = 1

\* C5: when the cancellation reaches the caller of a session that constructed
\* its service, stop() has completed; and on the cancellation path close() was
\* called before stop().
C5_CancelAfterTeardown ==
    /\ (Done /\ caught) =>
           /\ IndexOf("close", calls) > 0
           /\ IndexOf("close", calls) < IndexOf("stop", calls)
    /\ (Done /\ constructed /\ outcome = "CancelledError") => svc = "stopped"

\* C6: after start() failed with a non-cancellation error the relay read and
\* forwarded nothing, the failure was logged, handle_websocket returned
\* normally and stop() was called exactly once.
C6_StartFailureSwallowed ==
    /\ startFailed => (pc # "relay" /\ nRead = 0 /\ forwarded = <<>>)
    /\ (Done /\ startFailed) =>
           /\ logged = 1
           /\ StopCalls = 1
           /\ outcome = "returned"

\* C7: when accept() did not succeed (it raised, or was cancelled) the handler
\* is over and made no other call: no AppService, no start, stop, send or close.
C7_AcceptFailureHasNoEffects ==
    (appState = "CONNECTING" /\ pc \notin {"idle", "accept"}) =>
        /\ Done
        /\ calls = <<"accept">>
        /\ ~constructed
        /\ svc = "none"
        /\ startArgs = <<>>
        /\ sent = <<>>
        /\ forwarded = <<>>
        /\ logged = 0

\* accept() raised and the error reached the caller.
C7_Witness ==
    /\ Done
    /\ appState = "CONNECTING"
    /\ outcome = "Exception"
    /\ calls = <<"accept">>

\* =========================================================== the download
\* The bytes of the response body so far.
Body == Flatten(dl.emitted)

\* C8: a key the download manager does not know is answered 404 without
\* download(key) ever being invoked; a key it knows is answered by a streaming
\* response whose body is download(key) of that very key.
C8_UnknownKeyIs404 ==
    /\ (dl.pc \notin {"none", "request"} /\ dl.key \notin dl.known) =>
           /\ dl.pc = "responded"
           /\ dl.status = 404
           /\ dl.bodyKind = "text"
           /\ dl.downloadArgs = <<>>
           /\ dl.emitted = <<>>
    /\ (dl.pc \notin {"none", "request"} /\ dl.key \in dl.known) =>
           /\ dl.status = 200
           /\ dl.bodyKind = "stream"
           /\ dl.bodyKey = dl.key
           /\ dl.downloadArgs = IF dl.demand = 0 THEN <<>> ELSE <<dl.key>>

\* An unknown key answered 404.
C8_Witness ==
    /\ dl.pc = "responded"
    /\ dl.key \notin dl.known
    /\ dl.status = 404

\* C9: the body is at every moment the concatenation of the chunks
\* download(key) has yielded so far, in order, each once; when the body has
\* ended it is the concatenation of all of them; and a chunk is pulled from the
\* manager only on the consumer's request.
C9_BodyIsChunksInOrder ==
    dl.pc \in {"streaming", "finished", "aborted", "abandoned"} =>
        /\ dl.pulled <= Len(dl.chunks)
        /\ dl.emitted = SubSeq(dl.chunks, 1, dl.pulled)
        /\ Body = Flatten(SubSeq(dl.chunks, 1, dl.pulled))
        /\ dl.pulled <= dl.demand
        /\ dl.demand <= dl.pulled + 1
        /\ dl.pc = "finished" => (dl.emitted = dl.chunks /\ Body = Flatten(dl.chunks))

\* A body of three different chunks, read to its end.
C9_Witness ==
    /\ dl.pc = "finished"
    /\ Len(dl.chunks) = 3
    /\ dl.chunks[1] # dl.chunks[2]
    /\ dl.chunks[2] # dl.chunks[3]
    /\ Body = Flatten(dl.chunks)
    /\ Body # <<>>

\* ================================================================ the size
Malformed(param) == param.present /\ ~ParseInt(param.value).ok

\* C10: a width that is missing or not an integer is started as 80, a height
\* that is missing or not an integer as 24, each whatever the other is.
C10_DefaultSize ==
    startArgs # <<>> =>
        /\ (~query.width.present \/ Malformed(query.width)) => startArgs[1] = 80
        /\ (~query.height.present \/ Malformed(query.height)) => startArgs[2] = 24

\* A malformed width beside a well-formed height: 80 x 7.
C10_Witness ==
    /\ startArgs = <<80, 7>>
    /\ Malformed(query.width)
    /\ query.height = Present(<<"7">>)

\* C11: the width and height the service is started with are positive integers,
\* whatever the width and height query values are.
C11_StartSizePositive ==
    startArgs # <<>> => (startArgs[1] > 0 /\ startArgs[2] > 0)


\* ================================================== the download response
\* C12: the Content-Disposition header is "inline; filename=<name>" exactly when
\* the open-method hint is "browser", and "attachment; filename=<name>" for
\* every other hint, the file name taken as it is.
C12_DispositionFromOpenMethod ==
    dl.pc = "streaming" =>
        /\ (dl.meta.open_method = "browser") <=>
               (dl.content_disposition = "inline; filename=" \o dl.meta.file_name)
        /\ (dl.meta.open_method # "browser") <=>
               (dl.content_disposition = "attachment; filename=" \o dl.meta.file_name)

\* A hint that differs from "browser" only in case gives an attachment.
C12_Witness ==
    /\ dl.pc = "streaming"
    /\ dl.meta.open_method = "Browser"
    /\ dl.content_disposition = "attachment; filename=a b\".txt"

\* C13, as stated: the Content-Type header is the MIME type followed by
\* "; charset=<encoding>" when an encoding is present, and the bare MIME type
\* when it is absent.
C13_CharsetWhenPresent ==
    dl.pc = "streaming" =>
        /\ dl.meta.encoding.present =>
               dl.content_type =
                   dl.meta.mime_type \o "; charset=" \o dl.meta.encoding.value
        /\ ~dl.meta.encoding.present => dl.content_type = dl.meta.mime_type

\* C13, amended: the suffix is appended exactly when the encoding is a
\* non-empty text; an absent encoding and an empty one both give the bare MIME
\* type.
C13_CharsetWhenNonEmpty ==
    dl.pc = "streaming" =>
        /\ (dl.meta.encoding.present /\ dl.meta.encoding.value # "") =>
               dl.content_type =
                   dl.meta.mime_type \o "; charset=" \o dl.meta.encoding.value
        /\ (~dl.meta.encoding.present \/ dl.meta.encoding.value = "") =>
               dl.content_type = dl.meta.mime_type

\* Each of the three cases: an encoding, none, and the empty one.
C13_Witness ==
    /\ dl.pc = "streaming"
    /\ dl.meta.encoding = Encoding("")
    /\ dl.meta.mime_type = "text/plain"
    /\ dl.content_type = "text/plain"

\* C17: the body of the 404 response is "Download with key '<key>' not found",
\* the key between single quotes as it was given, whatever characters it holds.
C17_NotFoundBodyHasLiteralKey ==
    (dl.pc = "responded" /\ dl.status = 404) =>
        dl.text = "Download with key '" \o Join(dl.key) \o "' not found"

\* C18: when download(key) raises after n chunks, the body is those n chunks in
\* order and nothing else, the body does not end normally, and download(key)
\* has been invoked once.
C18_FailureEndsBodyAfterChunks ==
    /\ dl.pc = "aborted" =>
           /\ dl.failing
           /\ dl.emitted = SubSeq(dl.chunks, 1, dl.failAfter)
           /\ Body = Flatten(SubSeq(dl.chunks, 1, dl.failAfter))
           /\ dl.downloadArgs = <<dl.key>>
    /\ (dl.pc \in {"streaming", "finished", "abandoned"} /\ dl.failing) =>
           /\ dl.pc # "finished"
           /\ dl.pulled <= dl.failAfter
           /\ Len(dl.downloadArgs) <= 1

\* A download of three chunks that fails after the second.
C18_Witness ==
    /\ dl.pc = "aborted"
    /\ Len(dl.chunks) = 3
    /\ dl.failAfter = 2
    /\ dl.emitted = <<dl.chunks[1], dl.chunks[2]>>
    /\ dl.chunks[1] # dl.chunks[2]


\* ====================================================== the bootstrap page
\* The part of a URL after its first "://".
AfterScheme(url) ==
    SubSeq(url, Find(url, <<":", "/", "/">>) + 3, Len(url))

\* C14: the WebSocket URL has scheme wss when the base URL starts with https and
\* ws otherwise, and after "://" it is the base URL's remainder followed by
\* "/ws"; the static-assets URL is the base URL followed by "/static/".
C14_WsUrlFromBaseUrl ==
    page.pc = "rendered" =>
        /\ StartsWith(page.base_url, <<"h", "t", "t", "p", "s">>) =>
               StartsWith(page.app_websocket_url, <<"w", "s", "s", ":", "/", "/">>)
        /\ ~StartsWith(page.base_url, <<"h", "t", "t", "p", "s">>) =>
               StartsWith(page.app_websocket_url, <<"w", "s", ":", "/", "/">>)
        /\ AfterScheme(page.app_websocket_url) =
               AfterScheme(page.base_url) \o <<"/", "w", "s">>
        /\ page.static_url =
               page.base_url \o <<"/", "s", "t", "a", "t", "i", "c", "/">>

\* https://h:/r mounted under /r: wss://h:/r/r/ws.
C14_Witness ==
    /\ page.pc = "rendered"
    /\ page.base_url = <<"h", "t", "t", "p", "s", ":", "/", "/", "h", ":", "/", "r", "/", "r">>
    /\ page.app_websocket_url =
           <<"w", "s", "s", ":", "/", "/", "h", ":", "/", "r", "/", "r", "/", "w", "s">>


\* ================================================== the relay's two directions
\* C15: whatever the interleaving of the two directions, the messages handed to
\* the service are the messages received, in the order received, each once (a
\* message whose handling failed ends the relay), and the frames sent are the
\* frames the service wrote, in the order written, each once.
C15_FifoInEachDirection ==
    /\ \A i \in DOMAIN forwarded : forwarded[i] = i
    /\ Len(forwarded) <= nRead
    /\ nRead <= Len(forwarded) + 1
    /\ nRead <= clientSent
    /\ (pc = "relay" /\ outcome = "running") => Len(forwarded) = nRead
    /\ \A i \in DOMAIN sent : sent[i] = i

\* Two messages in and two frames out, the relay still running.
C15_Witness ==
    /\ pc = "relay"
    /\ forwarded = <<1, 2>>
    /\ sent = <<1, 2>>

\* ==================================================== who closes the WebSocket
\* C19: the bridge calls websocket.close() only in the cancellation branch; when
\* the handler ends on the normal-close path or after a swallowed error it has
\* stopped the service it constructed and not called close(), so the connection
\* is closed only if the client or the service itself closed it.
C19_CloseOnlyWhenCancelled ==
    /\ CloseCalls <= 1
    /\ (CloseCalls > 0) <=> caught
    /\ discBy = "app" => (caught \/ svcClosed)
    /\ (Done /\ ~caught) =>
           /\ CloseCalls = 0
           /\ constructed => StopCalls = 1
           /\ appState = "DISCONNECTED" => (discBy = "client" \/ svcClosed)

\* A swallowed error: logged, the service stopped, the connection still open.
C19_Witness ==
    /\ Done
    /\ outcome = "returned"
    /\ logged > 0
    /\ ~caught
    /\ StopCalls = 1
    /\ CloseCalls = 0
    /\ appState = "CONNECTED"


\* ====================================================== concurrent sessions
\* C16: with several sessions in any interleaving, each session constructs at
\* most one service; stop() is called only by the session that owns the service
\* and close() only on the caller's own WebSocket; a service is stopped and a
\* WebSocket closed from the server side only by its own session, so a session
\* in its relay has its service running whatever the other sessions did.
C16_SessionsIsolated ==
    server.pc = "serving" =>
        /\ \A s \in Sessions :
               Cardinality({i \in DOMAIN server.services :
                                server.services[i].owner = s}) <= 1
        /\ \A c \in server.stops : server.services[c[2]].owner = c[1]
        /\ \A c \in server.closes : c[2] = c[1]
        /\ \A i \in DOMAIN server.services :
               server.services[i].state = "stopped" =>
                   <<server.services[i].owner, i>> \in server.stops
        /\ \A t \in Sessions :
               /\ server.sess[t].app_service # 0 =>
                      server.services[server.sess[t].app_service].owner = t
               /\ server.sess[t].pc = "relay" =>
                      server.services[server.sess[t].app_service].state = "running"
               /\ server.sess[t].discBy = "app" => <<t, t>> \in server.closes

\* Session 2 constructed its service first and session 1 last; session 2 was
\* cancelled and is done, session 1 relays on.
C16_Witness ==
    /\ server.pc = "serving"
    /\ server.sess[2].pc = "done"
    /\ server.sess[2].app_service = 1
    /\ <<2, 2>> \in server.closes
    /\ <<2, 1>> \in server.stops
    /\ server.sess[1].pc = "relay"
    /\ server.sess[1].app_service = 2
    /\ server.services[2].state = "running"
    /\ server.sess[1].discBy = "none"

\* ============================================================ the lifespan
\* C20: in a run of the lifespan on_shutdown is called at most once, and only
\* after on_startup returned and the serving phase ended normally; it is not
\* called when on_startup failed or the serving phase ended by an exception.
C20_ShutdownOnlyAfterNormalServing ==
    life.pc # "none" =>
        /\ life.shutdownCalls <= 1
        /\ life.shutdownCalls = 1 => (life.startup = "ok" /\ life.serving = "ended")
        /\ (life.startup = "failed" \/ life.serving = "thrown") =>
               life.shutdownCalls = 0
        /\ life.pc = "shutdown" => life.shutdownCalls = 1
        /\ (life.pc = "exited" /\ life.serving = "ended") => life.shutdownCalls = 1

\* A run that shut down normally, then a run whose serving phase was ended by
\* an exception, after requests were served.
C20_Witness ==
    /\ life.pc = "exited"
    /\ life.history = <<"ok", "thrown">>
    /\ life.startup = "ok"
    /\ life.serving = "thrown"
    /\ life.shutdownCalls = 0
    /\ life.served > 0

====
